---- MODULE Spec2Model ----
(***************************************************************************)
(* A model of chicken.py: the file-name validator (valid_file_name and its *)
(* regular expression), the configuration layering (parse_config,          *)
(* parse_args) and the batch loop of __main__ with encrypt_file and        *)
(* send_file unfolded into their external calls.                           *)
(*                                                                         *)
(* Strings that the program inspects character by character (file names)   *)
(* are sequences of one-character strings.  Strings it only passes around  *)
(* (hosts, users, messages) are TLA+ strings.                              *)
(***************************************************************************)
EXTENDS Integers, Sequences, FiniteSets, TLC

(***************************************************************************)
(* Bounds of the model.                                                    *)
(***************************************************************************)
MaxFiles == 2
MaxCfgLines == 2
MaxOpts == 2
MaxSmall == 1
MaxLeadZeros == 1

(***************************************************************************)
(* Program constants.                                                      *)
(***************************************************************************)
MaxVersion == 255
MaxRevision == 65535

(***************************************************************************)
(* Characters.                                                             *)
(***************************************************************************)
DigitChars == <<"0", "1", "2", "3", "4", "5", "6", "7", "8", "9">>

Digit == {DigitChars[i] : i \in 1..10}

LowerCase == {"a", "b", "c", "d", "e", "f", "g", "h", "i", "j", "k", "l", "m",
              "n", "o", "p", "q", "r", "s", "t", "u", "v", "w", "x", "y", "z"}

\* The character class [a-z0-9_-] of file_name_regex.
LabelChar == LowerCase \cup Digit \cup {"_", "-"}

\* What an unescaped '.' of file_name_regex matches: anything but a newline.
AnyChar(c) == c # "\n"

DigitVal(c) == (CHOOSE i \in 1..10 : DigitChars[i] = c) - 1

\* int(s) for a non-empty string of ASCII digits.
RECURSIVE int(_)
int(s) ==
    IF s = << >> THEN 0
    ELSE int(SubSeq(s, 1, Len(s) - 1)) * 10 + DigitVal(s[Len(s)])

AllIn(s, lo, hi, class) == \A p \in lo..hi : s[p] \in class

(***************************************************************************)
(* file_name_regex = ^[a-z0-9_-]+-([0-9]+).([0-9]+).lha applied with       *)
(* match(): anchored at the start only, the two '.' are wildcards.  A      *)
(* parse is <<i, j, k>>: the label is name[1..i], name[i+1] is '-', group  *)
(* 1 is name[i+2..j], name[j+1] is the first wildcard, group 2 is          *)
(* name[j+2..k], name[k+1] the second wildcard and name[k+2..k+4] "lha".   *)
(***************************************************************************)
LabelEnds(name) ==
    {i \in 1..Len(name) - 1 : AllIn(name, 1, i, LabelChar) /\ name[i + 1] = "-"}

VerEnds(name, i) ==
    {j \in i + 2..Len(name) - 1 : AllIn(name, i + 2, j, Digit) /\ AnyChar(name[j + 1])}

RevEnds(name, j) ==
    {k \in j + 2..Len(name) - 4 :
        /\ AllIn(name, j + 2, k, Digit)
        /\ AnyChar(name[k + 1])
        /\ SubSeq(name, k + 2, k + 4) = <<"l", "h", "a">>}

Parses(name) ==
    UNION {UNION {{<<i, j, k>> : k \in RevEnds(name, j)} : j \in VerEnds(name, i)}
           : i \in LabelEnds(name)}

\* Lexicographic order on parses.
Before(p, q) ==
    \/ p[1] > q[1]
    \/ p[1] = q[1] /\ p[2] > q[2]
    \/ p[1] = q[1] /\ p[2] = q[2] /\ p[3] >= q[3]

\* The quantifiers are greedy and the engine backtracks: the parse found is
\* the one with the longest label, then the longest group 1, then the
\* longest group 2.
FirstParse(name) == CHOOSE p \in Parses(name) : \A q \in Parses(name) : Before(p, q)

NoMatch == [matched |-> FALSE, ver |-> << >>, rev |-> << >>]

file_name_regex(name) ==
    IF Parses(name) = {} THEN NoMatch
    ELSE LET p == FirstParse(name)
         IN  [matched |-> TRUE,
              ver |-> SubSeq(name, p[1] + 2, p[2]),
              rev |-> SubSeq(name, p[2] + 2, p[3])]

(***************************************************************************)
(* valid_file_name: the value returned and the kind of diagnostic printed. *)
(***************************************************************************)
Reject(kind) == [ret |-> FALSE, out |-> kind]

\* valid_file_name with the leading-zero tests made without the length test.
valid_file_name_bare_zero(name) ==
    LET match == file_name_regex(name)
        ver == match.ver
        rev == match.rev
    IN  IF ~match.matched THEN Reject("grammar")
        ELSE IF ver[1] = "0"
            THEN Reject("version cannot have a leading zero")
        ELSE IF int(ver) > MaxVersion
            THEN Reject("version cannot be greater than 255")
        ELSE IF rev[1] = "0"
            THEN Reject("revision cannot have a leading zero")
        ELSE IF int(rev) > MaxRevision
            THEN Reject("revision cannot be greater than 65535")
        ELSE [ret |-> TRUE, out |-> "none"]

\* valid_file_name with each range test made before the leading-zero test.
valid_file_name_range_first(name) ==
    LET match == file_name_regex(name)
        ver == match.ver
        rev == match.rev
    IN  IF ~match.matched THEN Reject("grammar")
        ELSE IF int(ver) > MaxVersion
            THEN Reject("version cannot be greater than 255")
        ELSE IF Len(ver) > 1 /\ ver[1] = "0"
            THEN Reject("version cannot have a leading zero")
        ELSE IF int(rev) > MaxRevision
            THEN Reject("revision cannot be greater than 65535")
        ELSE IF Len(rev) > 1 /\ rev[1] = "0"
            THEN Reject("revision cannot have a leading zero")
        ELSE [ret |-> TRUE, out |-> "none"]

\* valid_file_name with each range test letting one more value through.
valid_file_name_range_wide(name) ==
    LET match == file_name_regex(name)
        ver == match.ver
        rev == match.rev
    IN  IF ~match.matched THEN Reject("grammar")
        ELSE IF Len(ver) > 1 /\ ver[1] = "0"
            THEN Reject("version cannot have a leading zero")
        ELSE IF int(ver) > MaxVersion + 1
            THEN Reject("version cannot be greater than 255")
        ELSE IF Len(rev) > 1 /\ rev[1] = "0"
            THEN Reject("revision cannot have a leading zero")
        ELSE IF int(rev) > MaxRevision + 1
            THEN Reject("revision cannot be greater than 65535")
        ELSE [ret |-> TRUE, out |-> "none"]

valid_file_name(name) ==
    LET match == file_name_regex(name)
        ver == match.ver
        rev == match.rev
    IN  IF ~match.matched THEN Reject("grammar")
        ELSE IF Len(ver) > 1 /\ ver[1] = "0"
            THEN Reject("version cannot have a leading zero")
        ELSE IF int(ver) > MaxVersion
            THEN Reject("version cannot be greater than 255")
        ELSE IF Len(rev) > 1 /\ rev[1] = "0"
            THEN Reject("revision cannot have a leading zero")
        ELSE IF int(rev) > MaxRevision
            THEN Reject("revision cannot be greater than 65535")
        ELSE [ret |-> TRUE, out |-> "none"]

(***************************************************************************)
(* os.path.normpath (posixpath) on a path given as a character sequence.   *)
(***************************************************************************)
\* path.split('/')
RECURSIVE Split(_)
Split(path) ==
    IF \A p \in 1..Len(path) : path[p] # "/" THEN <<path>>
    ELSE LET p == CHOOSE q \in 1..Len(path) :
                      path[q] = "/" /\ \A r \in 1..q - 1 : path[r] # "/"
         IN  <<SubSeq(path, 1, p - 1)>> \o Split(SubSeq(path, p + 1, Len(path)))

\* '/'.join(comps)
RECURSIVE Join(_)
Join(comps) ==
    IF comps = << >> THEN << >>
    ELSE IF Len(comps) = 1 THEN comps[1]
    ELSE comps[1] \o <<"/">> \o Join(Tail(comps))

InitialSlashes(path) ==
    IF Len(path) = 0 \/ path[1] # "/" THEN 0
    ELSE IF Len(path) >= 2 /\ path[2] = "/" /\ ~(Len(path) >= 3 /\ path[3] = "/") THEN 2
    ELSE 1

RECURSIVE NewComps(_, _, _)
NewComps(comps, new, slashes) ==
    IF comps = << >> THEN new
    ELSE LET comp == comps[1]
             rest == Tail(comps)
         IN  IF comp = << >> \/ comp = <<".">> THEN NewComps(rest, new, slashes)
             ELSE IF \/ comp # <<".", ".">>
                     \/ (slashes = 0 /\ new = << >>)
                     \/ (new # << >> /\ new[Len(new)] = <<".", ".">>)
                 THEN NewComps(rest, Append(new, comp), slashes)
             ELSE IF new # << >>
                 THEN NewComps(rest, SubSeq(new, 1, Len(new) - 1), slashes)
             ELSE NewComps(rest, new, slashes)

normpath(path) ==
    IF path = << >> THEN <<".">>
    ELSE LET slashes == InitialSlashes(path)
             joined == [p \in 1..slashes |-> "/"] \o Join(NewComps(Split(path), << >>, slashes))
         IN  IF joined = << >> THEN <<".">> ELSE joined

(***************************************************************************)
(* Values of the configuration.                                            *)
(***************************************************************************)
\* Python's None as the value of args['ftp_dir'] and of outpath.
None == "<None>"

\* The module-level dictionary args as the interpreter builds it.  infiles is
\* None until has_infiles is set.
DefaultArgs ==
    [h |-> FALSE, ftp_host |-> "unknown", ftp_user |-> "none", ftp_pass |-> "none",
     ftp_dir |-> None, infiles |-> << >>, has_infiles |-> FALSE]

(***************************************************************************)
(* parse_config.  A line of chicken.config is given as the list of fields  *)
(* that ''.join(line.split()).split('=') makes of it; << >> stands for a   *)
(* line that is blank or starts with '#', which the loop skips.  The       *)
(* result is the dictionary and whether line[1] raised IndexError.         *)
(***************************************************************************)
ConfigKeys ==
    {"destination_site", "destination_login", "destination_password", "destination_dir"}

ConfigSlot(key) ==
    CASE key = "destination_site" -> "ftp_host"
      [] key = "destination_login" -> "ftp_user"
      [] key = "destination_password" -> "ftp_pass"
      [] key = "destination_dir" -> "ftp_dir"

RECURSIVE ConfigLines(_, _)
ConfigLines(a, lines) ==
    IF lines = << >> THEN [args |-> a, raised |-> FALSE]
    ELSE LET line == lines[1]
         IN  IF line = << >> THEN ConfigLines(a, Tail(lines))
             ELSE IF line[1] \notin ConfigKeys THEN ConfigLines(a, Tail(lines))
             ELSE IF Len(line) < 2 THEN [args |-> a, raised |-> TRUE]
             ELSE ConfigLines([a EXCEPT ![ConfigSlot(line[1])] = line[2]], Tail(lines))

parse_config(a, file) ==
    IF ~file.present THEN [args |-> a, raised |-> FALSE]
    ELSE ConfigLines(a, file.lines)

(***************************************************************************)
(* parse_args.  The command line is given as what getopt.getopt makes of   *)
(* it: GetoptError, or the list of (option, value) pairs and the list of   *)
(* remaining arguments.                                                    *)
(***************************************************************************)
\* OptSlot with the slots of -u and -p exchanged.
OptSlotSwapped(opt) ==
    CASE opt = "-n" -> "ftp_host"
      [] opt = "-u" -> "ftp_pass"
      [] opt = "-p" -> "ftp_user"
      [] opt = "-d" -> "ftp_dir"

OptSlot(opt) ==
    CASE opt = "-n" -> "ftp_host"
      [] opt = "-u" -> "ftp_user"
      [] opt = "-p" -> "ftp_pass"
      [] opt = "-d" -> "ftp_dir"

RECURSIVE ApplyOpts(_, _)
ApplyOpts(a, opts) ==
    IF opts = << >> THEN a
    ELSE LET opt == opts[1][1]
             val == opts[1][2]
         IN  IF opt = "-h" THEN ApplyOpts([a EXCEPT !.h = TRUE], Tail(opts))
             ELSE ApplyOpts([a EXCEPT ![OptSlot(opt)] = val], Tail(opts))

parse_args(a, cmdline) ==
    IF cmdline.err THEN [ret |-> FALSE, args |-> a]
    ELSE LET b == ApplyOpts(a, cmdline.opts)
         IN  [ret |-> TRUE,
              args |-> IF Len(cmdline.files) < 1
                       THEN [b EXCEPT !.h = TRUE]
                       ELSE [b EXCEPT !.infiles = cmdline.files, !.has_infiles = TRUE]]

(***************************************************************************)
(* The state of a run.                                                     *)
(*   cfgfile, cmdline  the inputs: chicken.config and the command line     *)
(*   args              the dictionary args                                 *)
(*   pc                the position of __main__                            *)
(*   cur               the number of the file the loop is at (0: none yet) *)
(*   inpath, outpath   the loop's variables of these names                 *)
(*   log               the external calls made and the lines printed, in   *)
(*                     order, each with the number of the file it is for   *)
(*   exitcode          the exit status, -1 while the program runs          *)
(*   handles           the file object and the FTP connection that         *)
(*                     send_file has made: "none", "open", "closed", and   *)
(*                     "quit" for a connection ended by ftp.quit()         *)
(***************************************************************************)
VARIABLES cfgfile, cmdline, args, pc, cur, inpath, outpath, log, exitcode, handles

vars == <<cfgfile, cmdline, args, pc, cur, inpath, outpath, log, exitcode, handles>>

Ev(op, res, arg) == [op |-> op, idx |-> cur, res |-> res, arg |-> arg]

Say(msg) == Ev("print", msg, << >>)

YesNo(b) == IF b THEN "yes" ELSE "no"

\* Python's None as the value of outpath, and outpath before it is bound (no
\* path is empty: encrypt_file returns a string that ends with '.pgp').
NoPath == << >>

\* The completion statuses of os.system that the model distinguishes.
SystemResults == {0, 1, 256}

(***************************************************************************)
(* __main__, lines 252-261.                                                *)
(***************************************************************************)
ParseConfig ==
    /\ pc = "config"
    /\ LET r == parse_config(args, cfgfile)
       IN  IF r.raised
           THEN /\ pc' = "exit"
                /\ exitcode' = 1
                /\ log' = Append(log, Say("Traceback"))
                /\ args' = r.args
           ELSE /\ pc' = "args"
                /\ args' = r.args
                /\ UNCHANGED <<exitcode, log>>
    /\ UNCHANGED <<cfgfile, cmdline, cur, inpath, outpath, handles>>

ParseArgs ==
    /\ pc = "args"
    /\ LET r == parse_args(args, cmdline)
       IN  /\ args' = r.args
           /\ IF ~r.ret \/ r.args.h
              THEN /\ log' = Append(log, Say("Usage"))
                   /\ exitcode' = 1
                   /\ pc' = "exit"
              ELSE /\ pc' = "loop"
                   /\ UNCHANGED <<log, exitcode>>
    /\ UNCHANGED <<cfgfile, cmdline, cur, inpath, outpath, handles>>

(***************************************************************************)
(* The batch loop, lines 263-287.  A break and the end of the list both    *)
(* fall off the end of the script: exit status 0.                          *)
(***************************************************************************)
\* Break as a continue: the loop goes on to the next file.
BreakContinues(events) ==
    /\ log' = log \o events
    /\ pc' = "loop"
    /\ UNCHANGED exitcode

Break(events) ==
    /\ log' = log \o events
    /\ pc' = "exit"
    /\ exitcode' = 0

\* NextFile taking the files from the end of the list.
NextFileReversed ==
    /\ pc = "loop"
    /\ cur < Len(args.infiles)
    /\ cur' = cur + 1
    /\ inpath' = normpath(args.infiles[Len(args.infiles) - cur])
    /\ pc' = "exists"
    /\ UNCHANGED <<cfgfile, cmdline, args, outpath, log, exitcode, handles>>

NextFile ==
    /\ pc = "loop"
    /\ cur < Len(args.infiles)
    /\ cur' = cur + 1
    /\ inpath' = normpath(args.infiles[cur + 1])
    /\ pc' = "exists"
    /\ UNCHANGED <<cfgfile, cmdline, args, outpath, log, exitcode, handles>>

\* Finish staying in the loop once the list is exhausted.
FinishIdles ==
    /\ pc = "loop"
    /\ cur >= Len(args.infiles)
    /\ UNCHANGED vars

Finish ==
    /\ pc = "loop"
    /\ cur >= Len(args.infiles)
    /\ pc' = "exit"
    /\ exitcode' = 0
    /\ UNCHANGED <<cfgfile, cmdline, args, cur, inpath, outpath, log, handles>>

CheckExists ==
    /\ pc = "exists"
    /\ \E e \in BOOLEAN :
         IF e
         THEN /\ log' = Append(log, Ev("exists", "yes", inpath))
              /\ pc' = "isfile"
              /\ UNCHANGED exitcode
         ELSE Break(<<Ev("exists", "no", inpath), Say("does not exist")>>)
    /\ UNCHANGED <<cfgfile, cmdline, args, cur, inpath, outpath, handles>>

\* CheckIsFile going on to the validation of what is not a regular file.
CheckIsFileIgnored ==
    /\ pc = "isfile"
    /\ \E f \in BOOLEAN :
         /\ log' = log \o (IF f THEN <<Ev("isfile", "yes", inpath)>>
                           ELSE <<Ev("isfile", "no", inpath), Say("not a file")>>)
         /\ pc' = "valid"
         /\ UNCHANGED exitcode
    /\ UNCHANGED <<cfgfile, cmdline, args, cur, inpath, outpath, handles>>

CheckIsFile ==
    /\ pc = "isfile"
    /\ \E f \in BOOLEAN :
         IF f
         THEN /\ log' = Append(log, Ev("isfile", "yes", inpath))
              /\ pc' = "valid"
              /\ UNCHANGED exitcode
         ELSE Break(<<Ev("isfile", "no", inpath), Say("not a file")>>)
    /\ UNCHANGED <<cfgfile, cmdline, args, cur, inpath, outpath, handles>>

\* Validate going on to the encryption of a rejected name.
ValidateIgnored ==
    /\ pc = "valid"
    /\ LET r == valid_file_name(inpath)
       IN  log' = log \o (IF r.ret THEN <<Ev("validate", "yes", inpath), Say("Encrypting")>>
                          ELSE <<Ev("validate", "no", inpath), Say(r.out), Say("Encrypting")>>)
    /\ pc' = "remove"
    /\ UNCHANGED <<cfgfile, cmdline, args, cur, inpath, outpath, exitcode, handles>>

Validate ==
    /\ pc = "valid"
    /\ LET r == valid_file_name(inpath)
       IN  IF r.ret
           THEN /\ log' = log \o <<Ev("validate", "yes", inpath), Say("Encrypting")>>
                /\ pc' = "remove"
                /\ UNCHANGED exitcode
           ELSE Break(<<Ev("validate", "no", inpath), Say(r.out)>>)
    /\ UNCHANGED <<cfgfile, cmdline, args, cur, inpath, outpath, handles>>

(***************************************************************************)
(* encrypt_file(inpath), lines 140-180, and its call, lines 278-283.  The  *)
(* text of the command is not modelled, only the call of os.system.        *)
(***************************************************************************)
Pgp(infile) == infile \o <<".", "p", "g", "p">>

\* EncryptRemove with the exception of os.remove left to end encrypt_file.
EncryptRemoveFatal ==
    /\ pc = "remove"
    /\ \E removed \in BOOLEAN :
         IF removed
         THEN /\ log' = Append(log, Ev("remove", "yes", Pgp(inpath)))
              /\ pc' = "system"
              /\ UNCHANGED exitcode
         ELSE Break(<<Ev("remove", "no", Pgp(inpath)), Say("pgp encryption failed")>>)
    /\ UNCHANGED <<cfgfile, cmdline, args, cur, inpath, outpath, handles>>

EncryptRemove ==
    /\ pc = "remove"
    /\ \E removed \in BOOLEAN :
         log' = Append(log, Ev("remove", YesNo(removed), Pgp(inpath)))
    /\ pc' = "system"
    /\ UNCHANGED <<cfgfile, cmdline, args, cur, inpath, outpath, exitcode, handles>>

\* EncryptSystem returning outfile whatever the completion status.
EncryptSystemUnchecked ==
    /\ pc = "system"
    /\ \E res \in SystemResults :
         /\ outpath' = Pgp(inpath)
         /\ log' = log \o <<Ev("system", IF res = 0 THEN "zero" ELSE "nonzero", Pgp(inpath)),
                            Say("Sending")>>
         /\ pc' = "open"
         /\ UNCHANGED exitcode
    /\ UNCHANGED <<cfgfile, cmdline, args, cur, inpath, handles>>

EncryptSystem ==
    /\ pc = "system"
    /\ \E res \in SystemResults :
         IF res = 0
         THEN /\ outpath' = Pgp(inpath)
              /\ log' = log \o <<Ev("system", "zero", Pgp(inpath)), Say("Sending")>>
              /\ pc' = "open"
              /\ UNCHANGED exitcode
         ELSE /\ outpath' = NoPath
              /\ Break(<<Ev("system", "nonzero", Pgp(inpath)), Say("pgp encryption failed")>>)
    /\ UNCHANGED <<cfgfile, cmdline, args, cur, inpath, handles>>

(***************************************************************************)
(* send_file(outpath, ...), lines 182-216, and its call, lines 284-287.    *)
(*                                                                         *)
(* send_file never calls outfile.close(), and calls ftp.quit() only after  *)
(* a store that succeeded.  What it leaves open when it returns is closed  *)
(* by the interpreter when it finalises the two objects: at once where     *)
(* objects are reference counted, at some later collection elsewhere.      *)
(* Return gives both outcomes.                                             *)
(***************************************************************************)
NoHandles == [outfile |-> "none", ftp |-> "none"]

Finalised(h) ==
    [outfile |-> IF h.outfile = "open" THEN "closed" ELSE h.outfile,
     ftp |-> IF h.ftp = "open" THEN "closed" ELSE h.ftp]

Return(h) == {h, Finalised(h)}

SendOpen ==
    /\ pc = "open"
    /\ \E ok \in BOOLEAN :
         IF ok
         THEN /\ log' = log \o <<Ev("open", "yes", outpath), Say("Opening FTP connection")>>
              /\ pc' = "connect"
              /\ handles' = [handles EXCEPT !.outfile = "open"]
              /\ UNCHANGED exitcode
         ELSE /\ Break(<<Ev("open", "no", outpath), Say("cannot open output file")>>)
              /\ UNCHANGED handles
    /\ UNCHANGED <<cfgfile, cmdline, args, cur, inpath, outpath>>

\* SendConnect going on to ftp.cwd whether or not a directory is configured.
SendConnectAlwaysCwd ==
    /\ pc = "connect"
    /\ \E ok \in BOOLEAN :
         IF ok
         THEN /\ log' = log \o <<Ev("connect", "yes", << >>), Say("STOR")>>
              /\ pc' = "cwd"
              /\ handles' = [handles EXCEPT !.ftp = "open"]
              /\ UNCHANGED exitcode
         ELSE /\ Break(<<Ev("connect", "no", << >>), Say("failed to connect")>>)
              /\ handles' \in Return(handles)
    /\ UNCHANGED <<cfgfile, cmdline, args, cur, inpath, outpath>>

SendConnect ==
    /\ pc = "connect"
    /\ \E ok \in BOOLEAN :
         IF ok
         THEN /\ log' = log \o <<Ev("connect", "yes", << >>), Say("STOR")>>
              /\ pc' = IF args.ftp_dir # None THEN "cwd" ELSE "stor"
              /\ handles' = [handles EXCEPT !.ftp = "open"]
              /\ UNCHANGED exitcode
         ELSE /\ Break(<<Ev("connect", "no", << >>), Say("failed to connect")>>)
              /\ handles' \in Return(handles)
    /\ UNCHANGED <<cfgfile, cmdline, args, cur, inpath, outpath>>

SendCwd ==
    /\ pc = "cwd"
    /\ \E ok \in BOOLEAN :
         IF ok
         THEN /\ log' = Append(log, Ev("cwd", "yes", << >>))
              /\ pc' = "stor"
              /\ UNCHANGED <<exitcode, handles>>
         ELSE /\ Break(<<Ev("cwd", "no", << >>), Say("failed to upload")>>)
              /\ handles' \in Return(handles)
    /\ UNCHANGED <<cfgfile, cmdline, args, cur, inpath, outpath>>

SendStor ==
    /\ pc = "stor"
    /\ \E ok \in BOOLEAN :
         IF ok
         THEN /\ log' = Append(log, Ev("stor", "yes", outpath))
              /\ pc' = "quit"
              /\ UNCHANGED <<exitcode, handles>>
         ELSE /\ Break(<<Ev("stor", "no", outpath), Say("failed to upload")>>)
              /\ handles' \in Return(handles)
    /\ UNCHANGED <<cfgfile, cmdline, args, cur, inpath, outpath>>

\* ftp.quit() sends QUIT and then closes the connection; when QUIT raises,
\* the connection is left as it is.
SendQuit ==
    /\ pc = "quit"
    /\ \E ok \in BOOLEAN :
         IF ok
         THEN /\ log' = log \o <<Ev("quit", "yes", << >>), Say("Done")>>
              /\ pc' = "loop"
              /\ handles' \in Return([handles EXCEPT !.ftp = "quit"])
              /\ UNCHANGED exitcode
         ELSE /\ Break(<<Ev("quit", "no", << >>), Say("failed to upload")>>)
              /\ handles' \in Return(handles)
    /\ UNCHANGED <<cfgfile, cmdline, args, cur, inpath, outpath>>

Next ==
    \/ ParseConfig
    \/ ParseArgs
    \/ NextFile
    \/ Finish
    \/ CheckExists
    \/ CheckIsFile
    \/ Validate
    \/ EncryptRemove
    \/ EncryptSystem
    \/ SendOpen
    \/ SendConnect
    \/ SendCwd
    \/ SendStor
    \/ SendQuit

(***************************************************************************)
(* Inputs.                                                                 *)
(***************************************************************************)
SeqsUpTo(S, n) == UNION {[1..m -> S] : m \in 0..n}

\* str(n) for n >= 0.
RECURSIVE Decimal(_)
Decimal(n) ==
    IF n < 10 THEN <<DigitChars[n + 1]>>
    ELSE Decimal(n \div 10) \o <<DigitChars[(n % 10) + 1]>>

\* The digit strings that write the numbers of vals with up to MaxLeadZeros
\* zeros in front.
DigitStrings(vals) ==
    {[p \in 1..z |-> "0"] \o Decimal(n) : z \in 0..MaxLeadZeros, n \in vals}

VerStrings == DigitStrings((0..MaxSmall) \cup {MaxVersion, MaxVersion + 1, 300})

RevStrings == DigitStrings((0..MaxSmall) \cup {MaxRevision, MaxRevision + 1})

Labels == {<<"a">>, <<"b", "_", "4", "-", "9">>, <<"A">>}

Lha == <<"l", "h", "a">>

\* File names around the grammar: a label, '-', two digit strings, with the
\* separators, the extension and the end of the name varied.
NameInputs ==
    {l \o <<"-">> \o v \o s1 \o r \o s2 \o e \o t :
        l \in Labels, v \in VerStrings, r \in RevStrings,
        s1 \in {<<".">>, <<"x">>, << >>}, s2 \in {<<".">>, <<"x">>},
        e \in {Lha, <<"l", "h", "x">>}, t \in {<< >>, <<"x">>}}

GoodName == <<"a", "-", "1", ".", "2", ".", "l", "h", "a">>

\* The file names of a batch: valid ones (one of them to be normalised, one
\* with directories in it), one that is out of range and one with an upper
\* case label.
BatchNames ==
    {GoodName,
     <<".", "/", "b", "-", "0", ".", "1", ".", "l", "h", "a">>,
     <<"a", "-", "1", "/", "2", "/", "l", "h", "a">>,
     <<"a", "-", "2", "5", "6", ".", "1", ".", "l", "h", "a">>,
     <<"A", "-", "1", ".", "2", ".", "l", "h", "a">>}

NoConfig == [present |-> FALSE, lines |-> << >>]

\* Lines of chicken.config: key=A for each key and for an unknown one, a
\* skipped line, a key without '=' and a value with a '=' in it.
ConfigLineInputs ==
    {<<k, "A">> : k \in ConfigKeys \cup {"other"}} \cup
    {<< >>, <<"destination_site">>, <<"destination_password", "P", "x">>}

OptInputs == {<<"-h", "">>} \cup {<<o, "B">> : o \in {"-n", "-u", "-p", "-d"}}

Start ==
    /\ args = DefaultArgs
    /\ pc = "config"
    /\ cur = 0
    /\ inpath = NoPath
    /\ outpath = NoPath
    /\ log = << >>
    /\ exitcode = -1
    /\ handles = NoHandles

\* Batches of up to MaxFiles files, with and without a remote directory.
Init ==
    /\ cfgfile \in {NoConfig, [present |-> TRUE, lines |-> <<<<"destination_dir", "A">>>>]}
    /\ cmdline \in [err : {FALSE}, opts : {<< >>}, files : SeqsUpTo(BatchNames, MaxFiles)]
    /\ Start

\* Every configuration file and command line within the bounds, with at most
\* one file.
InitConfig ==
    /\ cfgfile \in {NoConfig} \cup
                   [present : {TRUE}, lines : SeqsUpTo(ConfigLineInputs, MaxCfgLines)]
    /\ cmdline \in [err : {TRUE}, opts : {<< >>}, files : {<< >>}] \cup
                   [err : {FALSE}, opts : SeqsUpTo(OptInputs, MaxOpts),
                    files : {<< >>, <<GoodName>>}]
    /\ Start

\* The loop at the call of valid_file_name for one file, whatever its name.
InitName ==
    /\ cfgfile = NoConfig
    /\ \E name \in NameInputs :
         /\ cmdline = [err |-> FALSE, opts |-> << >>, files |-> <<name>>]
         /\ args = [DefaultArgs EXCEPT !.infiles = <<name>>, !.has_infiles = TRUE]
         /\ inpath = normpath(name)
         /\ log = <<[op |-> "exists", idx |-> 1, res |-> "yes", arg |-> normpath(name)],
                    [op |-> "isfile", idx |-> 1, res |-> "yes", arg |-> normpath(name)]>>
    /\ pc = "valid"
    /\ cur = 1
    /\ outpath = NoPath
    /\ exitcode = -1
    /\ handles = NoHandles

NextName == Validate

Spec == Init /\ [][Next]_vars

SpecConfig == InitConfig /\ [][Next]_vars

SpecName == InitName /\ [][NextName]_vars

\* The names of NameInputs with the one-letter lower case label.
PipelineNames == {name \in NameInputs : name[1] = "a"}

\* A run for one file, whatever its version and revision, with a remote
\* directory configured.
InitPipeline ==
    /\ cfgfile = [present |-> TRUE, lines |-> <<<<"destination_dir", "A">>>>]
    /\ cmdline \in [err : {FALSE}, opts : {<< >>}, files : {<<name>> : name \in PipelineNames}]
    /\ Start

SpecPipeline == InitPipeline /\ [][Next]_vars

\* Batches of a name that is accepted and of one that is rejected.
LiveNames == {GoodName, <<"a", "-", "2", "5", "6", ".", "1", ".", "l", "h", "a">>}

InitLive ==
    /\ cfgfile \in {NoConfig, [present |-> TRUE, lines |-> <<<<"destination_dir", "A">>>>]}
    /\ cmdline \in [err : {FALSE}, opts : {<< >>}, files : SeqsUpTo(LiveNames, MaxFiles)]
    /\ Start

\* Every call that the program makes returns: no step of the program that is
\* possible is put off for ever.
SpecLive == InitLive /\ [][Next]_vars /\ WF_vars(Next)

(***************************************************************************)
(* Reading the log.                                                        *)
(***************************************************************************)
Positions(i, op) == {p \in 1..Len(log) : log[p].idx = i /\ log[p].op = op}

Count(i, op) == Cardinality(Positions(i, op))

Has(i, op, res) == \E p \in Positions(i, op) : log[p].res = res

Printed(i, msg) == Has(i, "print", msg)

Files == 1..Len(cmdline.files)

\* The calls that process a file.
FileOps ==
    {"exists", "isfile", "validate", "remove", "system", "open", "connect", "cwd",
     "stor", "quit"}

\* An event that ends a file's pipeline in failure.
FailEv(e) ==
    \/ e.op \in (FileOps \ {"remove", "system"}) /\ e.res = "no"
    \/ e.op = "system" /\ e.res = "nonzero"

Failed(i) == \E p \in 1..Len(log) : log[p].idx = i /\ FailEv(log[p])

Stage(i) ==
    IF Failed(i) THEN "Failed"
    ELSE IF Has(i, "quit", "yes") THEN "Uploaded"
    ELSE IF Has(i, "system", "zero") THEN "Encrypted"
    ELSE IF Has(i, "validate", "yes") THEN "Validated"
    ELSE "Pending"

Untouched(i) == \A p \in 1..Len(log) : log[p].idx # i

(***************************************************************************)
(* The grammar <label>-<version>.<revision>.lha read literally: the places *)
(* <<i, j>> where the label and the version end in a name of that form.    *)
(***************************************************************************)
ExactSplits(name) ==
    {s \in (1..Len(name) - 1) \X (1..Len(name) - 1) :
        /\ s[2] >= s[1] + 2
        /\ s[2] + 2 <= Len(name) - 4
        /\ AllIn(name, 1, s[1], LabelChar)
        /\ name[s[1] + 1] = "-"
        /\ AllIn(name, s[1] + 2, s[2], Digit)
        /\ name[s[2] + 1] = "."
        /\ AllIn(name, s[2] + 2, Len(name) - 4, Digit)
        /\ SubSeq(name, Len(name) - 3, Len(name)) = <<".">> \o Lha}

VersionOf(name, s) == SubSeq(name, s[1] + 2, s[2])

RevisionOf(name, s) == SubSeq(name, s[2] + 2, Len(name) - 4)

LeadingZero(d) == Len(d) > 1 /\ d[1] = "0"

NameChecked == pc # "valid" /\ Count(1, "validate") = 1

NameAccepted == Has(1, "validate", "yes")

\* The diagnostics of the file: what was printed for it apart from progress.
Diagnostics(i) ==
    {log[p].res : p \in {q \in Positions(i, "print") :
                            log[q].res \notin {"Encrypting", "Sending", "STOR", "Done",
                                               "Opening FTP connection"}}}

C2_GrammarExact ==
    (NameChecked /\ ExactSplits(inpath) = {}) =>
        ~NameAccepted /\ Diagnostics(1) = {"grammar"}

(***************************************************************************)
(* C8: for a name of the grammar the diagnostic is that of the first rule  *)
(* that fails, in the order version leading zero, version range, revision  *)
(* leading zero, revision range; and every rejected name gets exactly one  *)
(* kind of diagnostic, every accepted name none.                           *)
(***************************************************************************)
FirstFailing(V, R) ==
    IF LeadingZero(V) THEN {"version cannot have a leading zero"}
    ELSE IF int(V) > 255 THEN {"version cannot be greater than 255"}
    ELSE IF LeadingZero(R) THEN {"revision cannot have a leading zero"}
    ELSE IF int(R) > 65535 THEN {"revision cannot be greater than 65535"}
    ELSE {}

C8_FirstFailureWins ==
    NameChecked =>
        /\ \A s \in ExactSplits(inpath) :
             Diagnostics(1) = FirstFailing(VersionOf(inpath, s), RevisionOf(inpath, s))
        /\ Cardinality(Diagnostics(1)) = IF NameAccepted THEN 0 ELSE 1

\* Witness of C8: a name whose version is both zero-led and out of range
\* ("0300") got the leading-zero diagnostic.
C8_Witness ==
    /\ NameChecked
    /\ \E s \in ExactSplits(inpath) :
         /\ LeadingZero(VersionOf(inpath, s))
         /\ int(VersionOf(inpath, s)) > 255
         /\ Diagnostics(1) = {"version cannot have a leading zero"}

(***************************************************************************)
(* C3: once the pipeline of a file has failed at any stage, no file after  *)
(* it in the batch is ever attempted: no pre-flight check, validation,     *)
(* encryption or upload call is made for it.                               *)
(***************************************************************************)
C3_StopOnFirstFailure ==
    \A i \in Files : Failed(i) => \A j \in Files : j > i => Untouched(j)

\* Witness of C3: the run has ended with the first of several files failed.
C3_Witness ==
    /\ pc = "exit"
    /\ Len(cmdline.files) >= 2
    /\ Failed(1)
    /\ Untouched(2)

(***************************************************************************)
(* C4: each file moves only along Pending -> Validated -> Encrypted ->     *)
(* Uploaded or from a stage before Uploaded to Failed; validation,         *)
(* encryption and upload are each invoked at most once for a file,         *)
(* encryption only after its name validated, upload only after its         *)
(* encryption returned success, and 'Done' only after its upload returned  *)
(* success.                                                                *)
(***************************************************************************)
StageSteps ==
    {<<"Pending", "Validated">>, <<"Validated", "Encrypted">>, <<"Encrypted", "Uploaded">>,
     <<"Pending", "Failed">>, <<"Validated", "Failed">>, <<"Encrypted", "Failed">>}

After(i, op, first, res) ==
    \A p \in Positions(i, op) :
        \E q \in 1..p - 1 : log[q].idx = i /\ log[q].op = first /\ log[q].res = res

StagesInOrder ==
    \A i \in Files :
        /\ Count(i, "validate") <= 1
        /\ Count(i, "remove") <= 1
        /\ Count(i, "system") <= 1
        /\ \A op \in {"open", "connect", "cwd", "stor", "quit"} : Count(i, op) <= 1
        /\ After(i, "remove", "validate", "yes")
        /\ After(i, "system", "validate", "yes")
        /\ After(i, "open", "system", "zero")
        /\ After(i, "stor", "system", "zero")
        /\ \A p \in Positions(i, "print") :
             log[p].res = "Done" =>
                 \E q \in 1..p - 1 : log[q].idx = i /\ log[q].op = "quit" /\ log[q].res = "yes"

C4_StageMachine ==
    /\ []StagesInOrder
    /\ [][\A i \in Files : Stage(i)' = Stage(i) \/ <<Stage(i), Stage(i)'>> \in StageSteps]_vars

\* Witness of C4: a file has gone through every stage and 'Done' was printed.
C4_Witness == \E i \in Files : Stage(i) = "Uploaded" /\ Printed(i, "Done")

(***************************************************************************)
(* C5: the files are processed in command-line order, one at a time: a     *)
(* file is touched only when every file before it is Uploaded, the n-th    *)
(* file processed is the n-th argument, at most one file is Failed and a   *)
(* Failed file is the last one attempted.                                  *)
(***************************************************************************)
C5_InOrder ==
    /\ \A i \in Files :
         /\ ~Untouched(i) => \A j \in 1..i - 1 : Stage(j) = "Uploaded"
         /\ \A p \in Positions(i, "exists") : log[p].arg = normpath(cmdline.files[i])
         /\ Failed(i) => i = cur /\ \A j \in Files : j > i => Untouched(j)
    /\ \A p \in 1..Len(log) : log[p].idx \in Files \cup {0}
    /\ \A p, q \in 1..Len(log) : p < q => log[p].idx <= log[q].idx
    /\ Cardinality({i \in Files : Failed(i)}) <= 1

\* Witness of C5: the first file is Uploaded and the second, another file,
\* Failed.
C5_Witness ==
    /\ Len(cmdline.files) >= 2
    /\ cmdline.files[1] # cmdline.files[2]
    /\ Stage(1) = "Uploaded"
    /\ Stage(2) = "Failed"

(***************************************************************************)
(* C9: for every file the existence check comes first, then the check for  *)
(* a regular file, then the validation of the name; a path that does not   *)
(* exist ends the batch with 'does not exist' and one that is no regular   *)
(* file with 'not a file', without validation, encryption or upload for    *)
(* that file, whatever its name.                                           *)
(***************************************************************************)
Follows(p, op, res) ==
    /\ p > 1
    /\ log[p - 1].idx = log[p].idx
    /\ log[p - 1].op = op
    /\ log[p - 1].res = res

HaltsWith(p, msg) ==
    /\ p = Len(log) - 1
    /\ log[p + 1] = [op |-> "print", idx |-> log[p].idx, res |-> msg, arg |-> << >>]
    /\ pc = "exit"

C9_PreflightFirst ==
    \A p \in 1..Len(log) :
        /\ log[p].op = "isfile" => Follows(p, "exists", "yes")
        /\ log[p].op = "validate" => Follows(p, "isfile", "yes")
        /\ log[p].op \in FileOps \ {"exists", "isfile"} => Has(log[p].idx, "isfile", "yes")
        /\ (log[p].op = "exists" /\ log[p].res = "no") => HaltsWith(p, "does not exist")
        /\ (log[p].op = "isfile" /\ log[p].res = "no") => HaltsWith(p, "not a file")

\* Witness of C9: a path with a valid name that is no regular file has ended
\* the batch.
C9_Witness ==
    /\ pc = "exit"
    /\ cur >= 1
    /\ Has(cur, "isfile", "no")
    /\ valid_file_name(inpath).ret

(***************************************************************************)
(* C10: in every invocation of encrypt_file the removal of input path +    *)
(* '.pgp' is attempted exactly once and right before the external tool is  *)
(* invoked, and the tool is invoked whatever the removal did.              *)
(***************************************************************************)
C10_RemoveThenEncrypt ==
    /\ \A p \in 1..Len(log) :
         /\ (log[p].op = "print" /\ log[p].res = "Encrypting") =>
                IF p = Len(log) THEN pc = "remove"
                ELSE log[p + 1].op = "remove" /\ log[p + 1].idx = log[p].idx
         /\ log[p].op = "remove" =>
                /\ Follows(p, "print", "Encrypting")
                /\ log[p].arg = Pgp(normpath(cmdline.files[log[p].idx]))
                /\ IF p = Len(log) THEN pc = "system"
                   ELSE log[p + 1].op = "system" /\ log[p + 1].idx = log[p].idx
         /\ log[p].op = "system" =>
                /\ p > 1
                /\ log[p - 1].op = "remove"
                /\ log[p - 1].idx = log[p].idx
    /\ \A i \in Files : Count(i, "remove") <= 1 /\ Count(i, "system") <= Count(i, "remove")

\* Witness of C10: the removal raised and the tool was invoked after it.
C10_Witness ==
    \E p \in 1..Len(log) - 1 :
        log[p].op = "remove" /\ log[p].res = "no" /\ log[p + 1].op = "system"

(***************************************************************************)
(* C6: for each of host, user, password and remote directory the value in  *)
(* effect in the loop is that of the command-line flag if the flag was     *)
(* given, else that of the configuration file if the key was present,      *)
(* else the default; it is in effect before the first file is processed    *)
(* and through the whole loop.                                             *)
(***************************************************************************)
Slots ==
    {[slot |-> "ftp_host", opt |-> "-n", key |-> "destination_site"],
     [slot |-> "ftp_user", opt |-> "-u", key |-> "destination_login"],
     [slot |-> "ftp_pass", opt |-> "-p", key |-> "destination_password"],
     [slot |-> "ftp_dir", opt |-> "-d", key |-> "destination_dir"]}

Given(opt) == {p \in 1..Len(cmdline.opts) : cmdline.opts[p][1] = opt}

Present(key) ==
    {p \in 1..Len(cfgfile.lines) : cfgfile.lines[p] # << >> /\ cfgfile.lines[p][1] = key}

Last(S) == CHOOSE p \in S : \A q \in S : q <= p

Effective(s) ==
    IF Given(s.opt) # {} THEN cmdline.opts[Last(Given(s.opt))][2]
    ELSE IF cfgfile.present /\ Present(s.key) # {} THEN cfgfile.lines[Last(Present(s.key))][2]
    ELSE DefaultArgs[s.slot]

InLoop == pc \notin {"config", "args"} /\ ~(pc = "exit" /\ exitcode # 0)

C6_Precedence == InLoop => \A s \in Slots : args[s.slot] = Effective(s)

\* Witness of C6: a file is being processed with a value that the
\* configuration file set and the command line then replaced.
C6_Witness ==
    /\ InLoop
    /\ cur >= 1
    /\ \E s \in Slots :
         /\ Given(s.opt) # {}
         /\ cfgfile.present
         /\ Present(s.key) # {}
         /\ args[s.slot] = "B"

(***************************************************************************)
(* C7: if the flags are malformed, no input file is given or -h is given,  *)
(* the program prints the usage text and exits with a non-zero status      *)
(* without any pre-flight check, validation, encryption or upload.         *)
(***************************************************************************)
ArgumentError == cmdline.err \/ Len(cmdline.files) < 1 \/ Given("-h") # {}

C7_UsageAndExit ==
    ArgumentError =>
        /\ \A p \in 1..Len(log) : log[p].op \notin FileOps
        /\ pc \in {"config", "args", "exit"}
        /\ pc = "exit" => exitcode # 0 /\ Printed(0, "Usage")

(***************************************************************************)
(* C11: encrypt_file invokes the external tool exactly once per call and   *)
(* returns the input path with '.pgp' appended if and only if the          *)
(* completion status is 0; on any other status it returns None, 'pgp       *)
(* encryption failed' is printed, the batch ends and send_file is never    *)
(* called for the file.                                                    *)
(***************************************************************************)
SendStages == {"open", "connect", "cwd", "stor", "quit"}

C11_EncryptResult ==
    /\ \A i \in Files :
         /\ Count(i, "system") <= 1
         /\ Count(i, "system") = (IF i = cur /\ pc = "system" THEN 0 ELSE Count(i, "remove"))
         /\ Has(i, "system", "nonzero") =>
                /\ i = cur
                /\ pc = "exit"
                /\ outpath = NoPath
                /\ Printed(i, "pgp encryption failed")
                /\ ~Printed(i, "Sending")
                /\ \A op \in SendStages : Count(i, op) = 0
         /\ Has(i, "system", "zero") =>
                /\ Printed(i, "Sending")
                /\ ~Printed(i, "pgp encryption failed")
                /\ i = cur => outpath = Pgp(normpath(cmdline.files[i]))
         /\ \A p \in Positions(i, "open") : log[p].arg = Pgp(normpath(cmdline.files[i]))
    /\ pc \in SendStages => Has(cur, "system", "zero")

\* Witness of C11: the tool ended with a status other than 0 and the batch
\* has ended without an upload.
C11_Witness ==
    /\ pc = "exit"
    /\ cur >= 1
    /\ Has(cur, "system", "nonzero")
    /\ outpath = NoPath

(***************************************************************************)
(* C12: send_file opens the local file, connects, changes the remote       *)
(* directory if and only if one is configured, stores and quits, in that   *)
(* order, and succeeds only if all of them do.  A failure to open ends it  *)
(* before any connection, a failure to connect before any store, and a     *)
(* failure of the directory change, the store or the quit ends it with     *)
(* 'failed to upload'.                                                     *)
(***************************************************************************)
C12_SendOrder ==
    /\ \A p \in 1..Len(log) :
         /\ log[p].op = "open" => Follows(p, "print", "Sending")
         /\ log[p].op = "connect" =>
                Follows(p, "print", "Opening FTP connection") /\ Follows(p - 1, "open", "yes")
         /\ log[p].op = "cwd" =>
                /\ args.ftp_dir # None
                /\ Follows(p, "print", "STOR")
                /\ Follows(p - 1, "connect", "yes")
         /\ log[p].op = "stor" =>
                IF args.ftp_dir # None THEN Follows(p, "cwd", "yes")
                ELSE Follows(p, "print", "STOR") /\ Follows(p - 1, "connect", "yes")
         /\ log[p].op = "quit" => Follows(p, "stor", "yes")
         /\ (log[p].op = "print" /\ log[p].res = "Done") => Follows(p, "quit", "yes")
         /\ (log[p].op = "open" /\ log[p].res = "no") => HaltsWith(p, "cannot open output file")
         /\ (log[p].op = "connect" /\ log[p].res = "no") => HaltsWith(p, "failed to connect")
         /\ (log[p].op \in {"cwd", "stor", "quit"} /\ log[p].res = "no") =>
                HaltsWith(p, "failed to upload")
    /\ \A i \in Files :
         /\ args.ftp_dir = None => Count(i, "cwd") = 0
         /\ Has(i, "quit", "yes") <=> Printed(i, "Done")

\* Witness of C12: with a directory configured the directory change failed
\* after a connection, and no store was made.
C12_Witness ==
    /\ pc = "exit"
    /\ cur >= 1
    /\ Has(cur, "connect", "yes")
    /\ Has(cur, "cwd", "no")
    /\ Count(cur, "stor") = 0

(***************************************************************************)
(* C13.  Whenever the program is outside send_file (the batch has moved    *)
(* on to the next file, or has halted), the file object that send_file     *)
(* opened is closed and the FTP connection it made has ended: quit or      *)
(* closed, never still open.                                               *)
(* send_file has no outfile.close() and reaches ftp.quit() only after a    *)
(* store that succeeded, so the release is left to the interpreter's       *)
(* finalisation of the two objects, which need not have happened.          *)
(***************************************************************************)
C13_HandlesReleased ==
    pc \notin SendStages =>
        /\ handles.outfile # "open"
        /\ handles.ftp # "open"

\* The last component of a path: what is left after its last '/'.
BaseName(path) == LET comps == Split(path) IN comps[Len(comps)]

(***************************************************************************)
(* C14.  For every file that reaches the upload, the name given to the     *)
(* binary store has no directory component: it has no '/' in it and is     *)
(* the base name of the input file with '.pgp' appended.                   *)
(* send_file stores under outpath as it is; outpath is free of '/' only    *)
(* as long as valid_file_name lets no '/' through, and the wildcard dots   *)
(* of file_name_regex (C2) let 'a-1/2/lha' through.                        *)
(***************************************************************************)
C14_StoreBaseName ==
    \A p \in 1..Len(log) :
        log[p].op = "stor" =>
            /\ \A q \in 1..Len(log[p].arg) : log[p].arg[q] # "/"
            /\ log[p].arg = Pgp(BaseName(normpath(cmdline.files[log[p].idx])))

\* The calls of the encryption and upload stages.
PipelineOps == {"remove", "system", "open", "connect", "cwd", "stor", "quit"}

(***************************************************************************)
(* C15.  A name that valid_file_name has accepted has a parsed version of  *)
(* integer value at most 255 and a parsed revision of integer value at     *)
(* most 65535; and for a file whose parsed version is above 255 or whose   *)
(* parsed revision is above 65535 no call of the encryption or upload      *)
(* stages is ever made, nor announced.                                     *)
(***************************************************************************)
C15_RangeGuardsPipeline ==
    \A i \in Files :
        LET match == file_name_regex(normpath(cmdline.files[i]))
        IN  /\ Has(i, "validate", "yes") =>
                /\ match.matched
                /\ int(match.ver) <= 255
                /\ int(match.rev) <= 65535
            /\ (match.matched /\ (int(match.ver) > 255 \/ int(match.rev) > 65535)) =>
                /\ \A op \in PipelineOps : Count(i, op) = 0
                /\ ~Printed(i, "Encrypting")
                /\ ~Printed(i, "Sending")

\* Witness of C15: a file of version 255 and revision 65535, the largest
\* values in range, has been uploaded.
C15_Witness ==
    /\ pc = "exit"
    /\ Has(1, "quit", "yes")
    /\ LET match == file_name_regex(normpath(cmdline.files[1]))
       IN  int(match.ver) = 255 /\ int(match.rev) = 65535

(***************************************************************************)
(* C16.  The exit status of a run does not depend on the outcome of the    *)
(* batch: with a well-formed command line that names a file and has no     *)
(* -h, the run ends with status 0 whether the file was uploaded or the     *)
(* batch was halted; and a run ends with a non-zero status only on the     *)
(* path that prints the usage text.                                        *)
(* parse_config runs before parse_args and raises on a recognised key      *)
(* without '=' (C7): that run ends with status 1 whatever the command      *)
(* line, without the usage text.                                           *)
(***************************************************************************)
C16_ExitStatus ==
    pc = "exit" =>
        /\ ~ArgumentError => exitcode = 0
        /\ exitcode # 0 => ArgumentError /\ Printed(0, "Usage")

\* The batch at its end: every file uploaded, or one file failed, the files
\* before it uploaded and the files after it never looked at.
AllUploaded == \A i \in Files : Stage(i) = "Uploaded"

OneFailed ==
    \E i \in Files :
        /\ Stage(i) = "Failed"
        /\ \A j \in Files \ {i} : Stage(j) # "Failed"
        /\ \A j \in Files : j > i => Stage(j) = "Pending" /\ Untouched(j)

(***************************************************************************)
(* C17.  With every external call returning, a run over a batch            *)
(* terminates; when a run that entered the loop has terminated, either     *)
(* every file is Uploaded or exactly one file is Failed and every file     *)
(* after it is still Pending; and from the start of the loop on, the       *)
(* configuration (host, user, password, directory) does not change.        *)
(***************************************************************************)
C17_Terminates ==
    /\ <>(pc = "exit")
    /\ [](pc = "exit" /\ InLoop => AllUploaded \/ OneFailed)
    /\ [][InLoop => args' = args]_vars

\* Witness of C17: a batch of two files has ended with the first file
\* uploaded to the configured directory and the second one failed at the
\* end of its upload.
C17_Witness ==
    /\ pc = "exit"
    /\ Len(cmdline.files) = 2
    /\ args.ftp_dir = "A"
    /\ Stage(1) = "Uploaded"
    /\ Has(2, "quit", "no")
    /\ OneFailed

====
